---------------------------- MODULE Spec2Model ----------------------------
(***************************************************************************)
(* Model of the offer-ingestion pipeline of automation-python-backend:     *)
(* the submission handler (api/ingest.py), the job store                   *)
(* (core/redis_client.py) and the orchestration task process_offer         *)
(* (workers/processor.py) for one job id.                                  *)
(*                                                                         *)
(* The extraction calls (extract_offer, extract_from_file,                 *)
(* resolve_attachment_bytes) are modelled at the boundary process_offer    *)
(* sees: a call raises, yields no bytes, or returns a dict that either     *)
(* carries a "products" list or is a single record.  A record is a dict    *)
(* over the fields process_offer reads that decide validation, dedup and   *)
(* Offer construction; a key may be missing from the dict.                 *)
(***************************************************************************)
EXTENDS Integers, Sequences, FiniteSets, TLC

\* ------------------------------------------------------------------ bounds
\* Largest number of attachments of a submitted payload.
MaxAttachments == 2
\* Largest number of records the extraction calls return over the whole run
\* of the model (all sources of all task executions together).
MaxCandidates == 2

\* ---------------------------------------------------------- value encoding
\* A dict key that is not present (dict.get then answers None).
Missing == "<missing>"
\* Python None in a string-valued field.
None == "<None>"
\* Python None / a missing key in a numeric field (prices are >= 0 here).
NoneN == 0 - 1
MissingN == 0 - 2

\* alcohol_percent values: a float is written as its decimal literal, a
\* percentage string as itself.
FloatLiterals == {"17.0"}

\* product_name values whose lower-case form starts with "row ".
RowNames == {"Row 1"}

\* ------------------------------------------------------- extraction results
Names == {Missing, "Row 1", "Gin", "Rum"}
Keys == {Missing, "K1"}
Alcohols == {None, "17%"}
\* <<price_per_unit, price_per_case>>
PricePairs == {<<5, NoneN>>, <<NoneN, 7>>, <<NoneN, NoneN>>}

Rec(n, k, pp, a) ==
    [product_name |-> n, product_key |-> k, price_per_unit |-> pp[1],
     price_per_case |-> pp[2], alcohol_percent |-> a]

BaseRecord == Rec("Gin", "K1", <<5, NoneN>>, None)

\* The records an extraction call may return: the base record with at most
\* one of name, key, prices, alcohol changed.
Records ==
    {Rec(n, "K1", <<5, NoneN>>, None) : n \in Names}
    \cup {Rec("Gin", k, <<5, NoneN>>, None) : k \in Keys}
    \cup {Rec("Gin", "K1", pp, None) : pp \in PricePairs}
    \cup {Rec("Gin", "K1", <<5, NoneN>>, a) : a \in Alcohols}

\* A dict without any of the modelled keys: {} or {"error": ...}.
EmptyDict == Rec(Missing, Missing, <<MissingN, MissingN>>, Missing)

RECURSIVE SeqsUpTo(_, _)
SeqsUpTo(S, n) ==
    IF n = 0 THEN {<<>>}
    ELSE LET shorter == SeqsUpTo(S, n - 1)
         IN shorter \cup {Append(s, x) : s \in {t \in shorter : Len(t) = n - 1}, x \in S}

\* ------------------------------------------------------------ pure helpers
\* dict.get(key): None for a missing key.
Get(v) == IF v = Missing THEN None ELSE v
GetN(v) == IF v = MissingN THEN NoneN ELSE v

\* `x or default` on a string value.
OrDefault(v, d) == IF Get(v) \in {None, ""} THEN d ELSE v

\* processor._safe_float(value, default) on a numeric value.
SafeFloat(v, d) == IF GetN(v) = NoneN THEN d ELSE v

\* {**extracted_data, **product_data}: a key of product_data wins whenever it
\* is present, whatever its value.
Merge(e, p) ==
    [product_name |-> IF p.product_name # Missing THEN p.product_name ELSE e.product_name,
     product_key |-> IF p.product_key # Missing THEN p.product_key ELSE e.product_key,
     price_per_unit |-> IF p.price_per_unit # MissingN THEN p.price_per_unit
                        ELSE e.price_per_unit,
     price_per_case |-> IF p.price_per_case # MissingN THEN p.price_per_case
                        ELSE e.price_per_case,
     alcohol_percent |-> IF p.alcohol_percent # Missing THEN p.alcohol_percent
                         ELSE e.alcohol_percent]

\* The single-record branch of the attachment loop: every key of the file's
\* dict whose value is not None, "" or [] overwrites extracted_data.
MergeSingle(e, f) ==
    [product_name |-> IF f.product_name \notin {Missing, None, ""} THEN f.product_name
                      ELSE e.product_name,
     product_key |-> IF f.product_key \notin {Missing, None, ""} THEN f.product_key
                     ELSE e.product_key,
     price_per_unit |-> IF f.price_per_unit \notin {MissingN, NoneN} THEN f.price_per_unit
                        ELSE e.price_per_unit,
     price_per_case |-> IF f.price_per_case \notin {MissingN, NoneN} THEN f.price_per_case
                        ELSE e.price_per_case,
     alcohol_percent |-> IF f.alcohol_percent \notin {Missing, None, ""} THEN f.alcohol_percent
                         ELSE e.alcohol_percent]

\* safe_data, restricted to the modelled fields.
SafeData(m) ==
    [product_name |-> OrDefault(m.product_name, "Not Found"),
     product_key |-> OrDefault(m.product_key, "Not Found"),
     price_per_unit |-> SafeFloat(m.price_per_unit, 0),
     price_per_case |-> SafeFloat(m.price_per_case, 0),
     alcohol_percent |-> Get(m.alcohol_percent)]

\* OfferItem(...) raises a validation error when alcohol_percent
\* (Optional[float]) is neither None nor parseable as a float.
ConstructionRaises(sd) == sd.alcohol_percent \notin ({None} \cup FloatLiterals)

\* offer.model_dump(mode='json'); uid is "{uid}_{idx}" (idx 0 on the
\* single-record path, where uid is the bare run uid).
OfferDict(sd, i) ==
    [uid |-> i, product_name |-> sd.product_name, product_key |-> sd.product_key,
     price_per_unit |-> sd.price_per_unit, price_per_case |-> sd.price_per_case,
     alcohol_percent |-> sd.alcohol_percent]

\* processor.is_valid_offer
IsValidOfferNoPrice(o) ==
    /\ o.product_name \notin {None, "", "Not Found", "Unknown", "Row"}
    /\ o.product_name \notin RowNames
IsValidOffer(o) ==
    /\ o.product_name \notin {None, "", "Not Found", "Unknown", "Row"}
    /\ o.product_name \notin RowNames
    /\ ~ (o.price_per_unit \in {NoneN, 0} /\ o.price_per_case \in {NoneN, 0})

\* delivery_id = f"{job_id}_{valid_count}" and f"{job_id}_single"
JobId == "job"
DeliveryId(n) == JobId \o "_" \o ToString(n)
SingleDeliveryId == JobId \o "_single"


\* ------------------------------------------- raw candidates, normalization
\* A JSON value of a raw candidate as the language model returns it: the key
\* is missing, or holds null, a number or a string.  Numbers are written in
\* hundredths (1.05 is 105, 17 is 1700), so that a float with two decimals is
\* an integer here.
Absent == [tag |-> "missing", num |-> 0, str |-> ""]
Null == [tag |-> "none", num |-> 0, str |-> ""]
Num(n) == [tag |-> "num", num |-> n, str |-> ""]
Str(s) == [tag |-> "str", num |-> 0, str |-> s]

\* The character U+20AC as a currency spelling.
EuroSign == "<euro sign>"

\* float(s) for the strings of the model that Python parses; any other
\* string raises ValueError.
FloatOf == ("1.05" :> 105) @@ ("17" :> 1700) @@ ("0.0" :> 0)

\* `value in [None, "Not Found", "", "null", 0, "0"]`
IsCleanSentinel(v) ==
    \/ v.tag = "none"
    \/ v.tag = "str" /\ v.str \in {"Not Found", "", "null", "0"}
    \/ v.tag = "num" /\ v.num = 0

\* clean_product_data on a numeric key (schema default None).
CleanNumeric(v) ==
    IF v.tag = "missing" \/ IsCleanSentinel(v) THEN Null
    ELSE IF v.tag = "num" THEN v
    ELSE IF v.str \in DOMAIN FloatOf THEN Num(FloatOf[v.str])
    ELSE Null

\* clean_product_data's last loop: 0 becomes None for the never-zero fields.
NeverZero(v) == IF v.tag = "num" /\ v.num = 0 THEN Null ELSE v

\* clean_product_data on a string key with schema default d.
CleanString(v, d) == IF v.tag = "missing" \/ IsCleanSentinel(v) THEN Str(d) ELSE v

\* The characters of the product names of the model.
Chars ==
    ("Gin Tonic" :> <<"G", "i", "n", " ", "T", "o", "n", "i", "c">>)
    @@ ("Rum & Co." :> <<"R", "u", "m", " ", "&", " ", "C", "o", ".">>)
    @@ ("Not Found" :> <<"N", "o", "t", " ", "F", "o", "u", "n", "d">>)

\* str.upper() on one character.
Upper(ch) ==
    LET up == ("i" :> "I") @@ ("n" :> "N") @@ ("o" :> "O") @@ ("c" :> "C")
              @@ ("u" :> "U") @@ ("m" :> "M") @@ ("t" :> "T") @@ ("d" :> "D")
    IN IF ch \in DOMAIN up THEN up[ch] ELSE ch

\* name.replace(' ', '_').replace('/', '_').replace('&', '_').replace('.', '').upper()
RECURSIVE KeyFromChars(_)
KeyFromChars(cs) ==
    IF cs = <<>> THEN ""
    ELSE LET ch == Head(cs)
             out == IF ch \in {" ", "/", "&"} THEN "_"
                    ELSE IF ch = "." THEN ""
                    ELSE Upper(ch)
         IN out \o KeyFromChars(Tail(cs))
DerivedKey(name) == KeyFromChars(Chars[name])

\* clean_product_data: every modelled schema key gets its cleaned value or
\* its default; then the product_key is derived from the name when it is ""
\* or None; then the never-zero fields lose a 0.
CleanProductData(p) ==
    LET c == [product_name |-> CleanString(p.product_name, "Not Found"),
              product_key |-> CleanString(p.product_key, "Not Found"),
              refillable_status |-> CleanString(p.refillable_status, "NRF"),
              currency |-> CleanString(p.currency, "EUR"),
              alcohol_percent |-> NeverZero(CleanNumeric(p.alcohol_percent)),
              unit_volume_ml |-> NeverZero(CleanNumeric(p.unit_volume_ml)),
              cases_per_pallet |-> NeverZero(CleanNumeric(p.cases_per_pallet)),
              price_per_unit |-> CleanNumeric(p.price_per_unit),
              price_per_case |-> CleanNumeric(p.price_per_case),
              price_per_unit_eur |-> CleanNumeric(p.price_per_unit_eur),
              price_per_case_eur |-> CleanNumeric(p.price_per_case_eur)]
    IN IF c.product_key \in {Str(""), Null} /\ c.product_name \notin {Str(""), Null}
       THEN [c EXCEPT !.product_key = Str(DerivedKey(c.product_name.str))]
       ELSE c

\* round(x, 2) of n / d hundredths: to the nearest hundredth, a tie to even.
RoundDiv(n, d) ==
    LET q == n \div d
        r == n % d
    IN IF 2 * r < d THEN q
       ELSE IF 2 * r > d THEN q + 1
       ELSE IF q % 2 = 0 THEN q ELSE q + 1

\* `price in [None, "Not Found", "", 0, "0"]`
IsPriceSentinel(v) ==
    \/ v.tag \in {"none", "missing"}
    \/ v.tag = "str" /\ v.str \in {"Not Found", "", "0"}
    \/ v.tag = "num" /\ v.num = 0

\* float(value) in a try block whose handler gives None (the `numeric_fields`
\* loop of process_offer, which skips None; convert_price_to_eur).
FloatOrNone(v) ==
    IF v.tag \in {"none", "missing"} THEN Null
    ELSE IF v.tag = "num" THEN v
    ELSE IF v.str \in DOMAIN FloatOf THEN Num(FloatOf[v.str])
    ELSE Null

\* convert_price_to_eur(price, currency, exchange_rate); the rate is in
\* hundredths too.
ConvertPriceToEur(price, rate) ==
    IF IsPriceSentinel(price) \/ FloatOrNone(price) \in {Null, Num(0)} THEN Null
    ELSE Num(RoundDiv(FloatOrNone(price).num * rate, 100))

\* `currency in ["Not Found", "", None, "EUR"]`: no conversion, no lookup.
IsEurOrAbsentNever(c) == FALSE
IsEurOrAbsent(c) ==
    \/ c.tag \in {"none", "missing"}
    \/ c.tag = "str" /\ c.str \in {"Not Found", "", "EUR"}

\* The currency step at the end of extract_offer (and of extract_from_file)
\* on one cleaned product, with the rate the lookup returns.
ToEUR(c, rate) ==
    IF IsEurOrAbsent(c.currency)
    THEN [c EXCEPT !.price_per_unit_eur = c.price_per_unit,
                   !.price_per_case_eur = c.price_per_case]
    ELSE [c EXCEPT !.price_per_unit_eur =
                       IF IsPriceSentinel(c.price_per_unit) THEN @
                       ELSE ConvertPriceToEur(c.price_per_unit, rate),
                   !.price_per_case_eur =
                       IF IsPriceSentinel(c.price_per_case) THEN @
                       ELSE ConvertPriceToEur(c.price_per_case, rate)]

\* `value or default` on a string key in process_offer.
OrDefaultOf(v, d) ==
    IF v.tag \in {"none", "missing"} \/ v = Str("") \/ v = Num(0) THEN Str(d) ELSE v

\* processor._safe_float(value, default) on a JSON value.
SafeFloatOf(v, d) ==
    IF v.tag \in {"none", "missing"} THEN Num(d)
    ELSE IF v.tag = "num" THEN v
    ELSE IF v.str \in {"", "Not Found"} THEN Num(d)
    ELSE IF v.str \in DOMAIN FloatOf THEN Num(FloatOf[v.str])
    ELSE Num(d)

\* process_offer on one product of a "products" list: safe_data, OfferItem,
\* model_dump, restricted to the modelled fields (a missing key reads None).
PersistedOffer(c) ==
    [product_name |-> OrDefaultOf(c.product_name, "Not Found"),
     product_key |-> OrDefaultOf(c.product_key, "Not Found"),
     refillable_status |-> OrDefaultOf(c.refillable_status, ""),
     currency |-> OrDefaultOf(c.currency, "EUR"),
     alcohol_percent |-> IF c.alcohol_percent.tag = "missing" THEN Null
                         ELSE c.alcohol_percent,
     unit_volume_ml |-> SafeFloatOf(c.unit_volume_ml, 0),
     cases_per_pallet |-> FloatOrNone(c.cases_per_pallet),
     price_per_unit |-> SafeFloatOf(c.price_per_unit, 0),
     price_per_case |-> SafeFloatOf(c.price_per_case, 0),
     price_per_unit_eur |-> SafeFloatOf(c.price_per_unit_eur, 0),
     price_per_case_eur |-> SafeFloatOf(c.price_per_case_eur, 0)]


\* A raw candidate with every modelled field present and well-formed.
BaseCandidate ==
    [product_name |-> Str("Gin Tonic"), product_key |-> Str("K1"),
     refillable_status |-> Str("REF"), currency |-> Str("EUR"),
     alcohol_percent |-> Num(1700), unit_volume_ml |-> Num(70000),
     cases_per_pallet |-> Num(6000), price_per_unit |-> Num(105),
     price_per_case |-> Num(1260), price_per_unit_eur |-> Absent,
     price_per_case_eur |-> Absent]

\* Raw values of a numeric key, of a string key, of the name, of the currency.
NumericRaws ==
    {Absent, Null, Num(0), Str("0"), Str(""), Str("Not Found"), Str("0.0"),
     Num(105), Str("1.05"), Str("abc")}
StringRaws == {Absent, Null, Str(""), Str("Not Found")}
NameRaws == {Str("Gin Tonic"), Str("Rum & Co.")}
CurrencyRaws == StringRaws \cup {Str("EUR"), Str("EURO"), Str(EuroSign), Str("USD")}

\* The raw candidates of the model: the base candidate with one group of
\* fields changed (a numeric field; the refillable status; the alcohol
\* percentage; name and key; currency and the four prices).
RawCandidates ==
    {[BaseCandidate EXCEPT ![f] = v] :
        f \in {"unit_volume_ml", "cases_per_pallet", "price_per_unit", "price_per_case"},
        v \in NumericRaws}
    \cup {[BaseCandidate EXCEPT !.refillable_status = v] :
            v \in StringRaws \cup {Str("REF"), Str("NRF")}}
    \cup {[BaseCandidate EXCEPT !.alcohol_percent = v] :
            v \in {Absent, Null, Num(0), Num(1700), Str("17"), Str("17%")}}
    \cup {[BaseCandidate EXCEPT !.product_name = n, !.product_key = k] :
            n \in NameRaws, k \in StringRaws \cup {Str("K1")}}
    \cup {[BaseCandidate EXCEPT !.currency = c, !.price_per_unit = pu,
                                !.price_per_case = pc_, !.price_per_unit_eur = ue,
                                !.price_per_case_eur = ce] :
            c \in CurrencyRaws, pu \in {Absent, Num(0), Num(105)},
            pc_ \in {Absent, Num(1260)}, ue \in {Absent, Num(900)},
            ce \in {Absent, Num(900)}}

\* What get_exchange_rate_to_eur may return, in hundredths: the rate the
\* language model names, or 1.0 when the lookup fails.
Rates == {85, 100}


\* ------------------------------------------------------------------- state
VARIABLES
    payload,          \* the submitted payload: has a text body, number of attachments
    ingest_pc,        \* position of the submission handler
    status,           \* store key job:{id}:status ("absent" when the key is not set)
    result,           \* store key job:{id}:result
    queue,            \* task messages of this job waiting at the broker
    pc,               \* position of process_offer
    extracted_data,   \* process_offer's local dict
    all_products,     \* process_offer's local list of candidate records
    alias,            \* index in all_products of the element that IS extracted_data
    origin,           \* per element of all_products: <<source, position>> it came from
    att,              \* attachment the loop over payload.attachments is at (1-based)
    idx,              \* candidate the loop over all_products is at (1-based)
    offers,
    processed_keys,
    valid_count,
    duplicate_count,
    deliveries,       \* the send_consolidated_webhook calls made by this execution
    term,             \* the result payload the execution is about to persist
    faults,           \* what failed in this execution: "source", "record", "delivery",
                      \* "store"; with "fatal_early" / "fatal_late" when the exception
                      \* left the per-source and per-record isolation while no offer /
                      \* some offer had been accepted
    produced,         \* records returned by the extraction calls so far
    norm,             \* one raw candidate on its way through the normalization steps
    poll,             \* one GET /result/{job_id} request on its way through get_result
    batch,            \* the products of one extraction in the price conversion loop
    sheet             \* one spreadsheet on its way through the batches of extract_from_file

storeVars == <<status, result>>
ingestVars == <<payload, ingest_pc>>
localVars == <<extracted_data, all_products, alias, origin, att, idx, offers,
               processed_keys, valid_count, duplicate_count>>
jobVars == <<payload, ingest_pc, status, result, queue, pc, extracted_data, all_products,
             alias, origin, att, idx, offers, processed_keys, valid_count,
             duplicate_count, deliveries, term, faults, produced>>
vars == <<payload, ingest_pc, status, result, queue, pc, extracted_data, all_products,
          alias, origin, att, idx, offers, processed_keys, valid_count,
          duplicate_count, deliveries, term, faults, produced, norm, poll, batch, sheet>>

NoResult ==
    [status |-> "absent", has_products |-> FALSE, products |-> <<>>,
     total_products |-> 0, duplicate_count |-> 0, error_trace |-> FALSE]

\* result_data of the normal ending
\* (DoneResultMiscounted: total_products counts the duplicates too.)
DoneResultMiscounted(os, dups) ==
    [status |-> "done", has_products |-> TRUE, products |-> os,
     total_products |-> Len(os) + dups, duplicate_count |-> dups, error_trace |-> FALSE]
DoneResult(os, dups) ==
    [status |-> "done", has_products |-> TRUE, products |-> os,
     total_products |-> Len(os), duplicate_count |-> dups, error_trace |-> FALSE]

\* result_data of the single-record path's exception handler: no "products" key
PartialResult(dups) ==
    [status |-> "partial_success", has_products |-> FALSE, products |-> <<>>,
     total_products |-> 0, duplicate_count |-> dups, error_trace |-> TRUE]

\* error_result of the outermost exception handler
ErrorResult ==
    [status |-> "failed", has_products |-> FALSE, products |-> <<>>,
     total_products |-> 0, duplicate_count |-> 0, error_trace |-> TRUE]

\* No candidate is being normalized; no request is being answered
\* (key_expired and result_expired note that the status key, the result key
\* has expired at some moment).
NoCandidate ==
    [stage |-> "idle", raw |-> Absent, cur |-> Absent, offer |-> Absent, rate |-> 0,
     lookups |-> <<>>]
NoSheet ==
    [pc |-> "idle", total_rows |-> 0, batch_start |-> 0, out |-> <<>>, covered |-> <<>>,
     largest |-> 0, longer |-> FALSE]
NoBatch == [products |-> <<>>, i |-> 1, lookups |-> <<>>]
NoPoll ==
    [pc |-> "idle", in_window |-> FALSE, stored |-> FALSE, code |-> 0, status |-> "",
     kind |-> "", key_expired |-> FALSE, result_expired |-> FALSE]

InitJob ==
    /\ payload = [text_body |-> FALSE, attachments |-> 0]
    /\ ingest_pc = "start"
    /\ status = "absent"
    /\ result = NoResult
    /\ queue = 0
    /\ pc = "idle"
    /\ extracted_data = EmptyDict
    /\ all_products = <<>>
    /\ alias = 0
    /\ origin = <<>>
    /\ att = 1
    /\ idx = 1
    /\ offers = <<>>
    /\ processed_keys = {}
    /\ valid_count = 0
    /\ duplicate_count = 0
    /\ deliveries = <<>>
    /\ term = NoResult
    /\ faults = {}

Init ==
    /\ InitJob
    /\ produced = 0
    /\ norm = NoCandidate
    /\ poll = NoPoll
    /\ batch = NoBatch
    /\ sheet = NoSheet

\* ------------------------------------------------------------- submission
\* ingest: job_id = uuid4(); set_job_status(job_id, "processing")
\* (IngestSetStatusSkipped: the handler enqueues without writing the status.)
IngestSetStatusSkipped ==
    /\ ingest_pc = "start"
    /\ \E t \in BOOLEAN, n \in 0..MaxAttachments :
          payload' = [text_body |-> t, attachments |-> n]
    /\ ingest_pc' = "enqueue"
    /\ UNCHANGED <<status, result, queue, pc, localVars, deliveries, term, faults, produced>>
    /\ UNCHANGED <<norm, poll, batch, sheet>>

IngestSetStatus ==
    /\ ingest_pc = "start"
    /\ \E t \in BOOLEAN, n \in 0..MaxAttachments :
          payload' = [text_body |-> t, attachments |-> n]
    /\ status' = "processing"
    /\ ingest_pc' = "enqueue"
    /\ UNCHANGED <<result, queue, pc, localVars, deliveries, term, faults, produced>>
    /\ UNCHANGED <<norm, poll, batch, sheet>>

\* ingest: process_document_task.delay(job_id, payload); return job_id
IngestEnqueue ==
    /\ ingest_pc = "enqueue"
    /\ queue' = queue + 1
    /\ ingest_pc' = "returned"
    /\ UNCHANGED <<payload, storeVars, pc, localVars, deliveries, term, faults, produced>>
    /\ UNCHANGED <<norm, poll, batch, sheet>>

\* The broker hands the task message of a job whose execution has ended to a
\* worker once more (task retry / redelivery).
Redeliver ==
    /\ ingest_pc = "returned"
    /\ queue = 0
    /\ pc \in {"returned", "raised"}
    /\ queue' = 1
    /\ UNCHANGED <<ingestVars, storeVars, pc, localVars, deliveries, term, faults, produced>>
    /\ UNCHANGED <<norm, poll, batch, sheet>>

\* ---------------------------------------------------------- process_offer
\* An exception that reaches a job-level handler (the single-record path's, or
\* the outermost one), tagged by whether an offer had been accepted by then.
Fatal(kind, os) == {kind, IF os = <<>> THEN "fatal_early" ELSE "fatal_late"}

\* Where process_offer goes once all sources are read: `if all_products:`
AfterSources(all) == IF all # <<>> THEN "loop" ELSE "single"
AfterText(all) == IF payload.attachments > 0 THEN "attachments" ELSE AfterSources(all)

\* Entry: fresh locals, then redis_manager.set_job_status(job_id, "processing").
RunBeginStatus(ok) == IF ok THEN "processing" ELSE status

RunBegin ==
    /\ queue > 0
    /\ pc \in {"idle", "returned", "raised"}
    /\ queue' = queue - 1
    /\ extracted_data' = EmptyDict
    /\ all_products' = <<>>
    /\ alias' = 0
    /\ origin' = <<>>
    /\ att' = 1
    /\ idx' = 1
    /\ offers' = <<>>
    /\ processed_keys' = {}
    /\ valid_count' = 0
    /\ duplicate_count' = 0
    /\ deliveries' = <<>>
    /\ term' = NoResult
    /\ \E ok \in BOOLEAN :
          /\ status' = RunBeginStatus(ok)
          /\ pc' = IF ok THEN "text" ELSE "result_handler"
          /\ faults' = IF ok THEN {} ELSE Fatal("store", <<>>)
    /\ UNCHANGED <<ingestVars, result, produced>>
    /\ UNCHANGED <<norm, poll, batch, sheet>>

\* The lists of records a source may still return.
ProductLists == SeqsUpTo(Records, MaxCandidates - produced)

\* <<source, 1>>, ..., <<source, n>>
Origins(source, n) == [i \in 1..n |-> <<source, i>>]

\* `except Exception: ... continue` around a source: the failure is logged and
\* process_offer goes on where it would have gone (next).
SourceFailureAborts(next) == "result_handler"
SourceFailure(next) == next

\* all_products.extend(products_list)
ExtendBug(all, ps) == ps \o all
Extend(all, ps) == all \o ps

\* Inline text (source 0): extract_offer raises; or returns a dict with a
\* "products" list; or returns a dict without one, which is appended itself.
ExtractText ==
    /\ pc = "text"
    /\ \/ /\ ~ payload.text_body
          /\ UNCHANGED <<extracted_data, all_products, alias, origin, faults, produced>>
       \/ /\ payload.text_body
          /\ faults' = faults \cup {"source"}
          /\ UNCHANGED <<extracted_data, all_products, alias, origin, produced>>
       \/ /\ payload.text_body
          /\ \E ps \in ProductLists :
                /\ all_products' = Extend(all_products, ps)
                /\ origin' = Extend(origin, Origins(0, Len(ps)))
                /\ produced' = produced + Len(ps)
          /\ UNCHANGED <<extracted_data, alias, faults>>
       \/ /\ payload.text_body
          /\ produced < MaxCandidates
          /\ \E r \in Records :
                /\ extracted_data' = r
                /\ all_products' = Append(all_products, r)
                /\ alias' = Len(all_products) + 1
                /\ origin' = Append(origin, <<0, 1>>)
                /\ produced' = produced + 1
          /\ UNCHANGED faults
    /\ pc' = IF "source" \in faults' THEN SourceFailure(AfterText(all_products))
             ELSE AfterText(all_products')
    /\ UNCHANGED <<ingestVars, storeVars, queue, att, idx, offers, processed_keys,
                   valid_count, duplicate_count, deliveries, term>>
    /\ UNCHANGED <<norm, poll, batch, sheet>>

\* One attachment (source att): resolve_attachment_bytes or extract_from_file
\* raises; or there are no bytes, or the extraction returns nothing; or it
\* returns a "products" list; or a dict without one, which is merged into
\* extracted_data.
AttachmentNextStuck(all) == "attachments"
AttachmentNext(all) ==
    IF att = payload.attachments THEN AfterSources(all) ELSE "attachments"

ProcessAttachment ==
    /\ pc = "attachments"
    /\ att <= payload.attachments
    /\ \/ /\ faults' = faults \cup {"source"}
          /\ pc' = SourceFailure(AttachmentNext(all_products))
          /\ UNCHANGED <<extracted_data, all_products, origin, produced>>
       \/ /\ \E ps \in ProductLists :
                /\ all_products' = Extend(all_products, ps)
                /\ origin' = Extend(origin, Origins(att, Len(ps)))
                /\ produced' = produced + Len(ps)
          /\ pc' = AttachmentNext(all_products')
          /\ UNCHANGED <<extracted_data, faults>>
       \/ /\ \E r \in (IF produced < MaxCandidates THEN Records ELSE {}) \cup {EmptyDict} :
                /\ extracted_data' = MergeSingle(extracted_data, r)
                /\ produced' = produced + (IF r = EmptyDict THEN 0 ELSE 1)
          /\ pc' = AttachmentNext(all_products)
          /\ UNCHANGED <<all_products, origin, faults>>
    /\ att' = att + 1
    /\ UNCHANGED <<ingestVars, storeVars, queue, alias, idx, offers, processed_keys,
                   valid_count, duplicate_count, deliveries, term>>
    /\ UNCHANGED <<norm, poll, batch, sheet>>

\* product_data of iteration i: the list element, which for the aliased
\* element is the extracted_data object as it is now.
ProductData(i) == IF i = alias THEN extracted_data ELSE all_products[i]

\* The offer iteration i builds: merged_data, safe_data, OfferItem, model_dump.
Normalized(i) == SafeData(Merge(extracted_data, ProductData(i)))
BuiltOffer(i) == OfferDict(Normalized(i), i - 1)

\* `if p_key not in processed_keys`
IsNewKeyBug(k, seen) == TRUE
IsNewKey(k, seen) == k \notin seen

\* The webhook call of the multi-record path.
DeliverySameId(o, n) == [delivery_id |-> DeliveryId(1), product |-> o]
Delivery(o, n) == [delivery_id |-> DeliveryId(n), product |-> o]

\* `except Exception as e: ... continue` around the body of the loop over
\* all_products: the failure is logged and the loop goes on (next).
RecordFailureAborts(next) == "result_handler"
RecordFailure(next) == next

\* Where the loop over all_products goes after iteration idx.
LoopNext == IF idx = Len(all_products) THEN "result_main" ELSE "loop"

\* One iteration of `for idx, product_data in enumerate(all_products)`.
\* An exception anywhere in the body (construction, webhook) is caught,
\* logged, and the loop goes on.
ProcessCandidate ==
    /\ pc = "loop"
    /\ idx <= Len(all_products)
    /\ \/ /\ ConstructionRaises(Normalized(idx))
          /\ faults' = faults \cup {"record"}
          /\ UNCHANGED <<offers, processed_keys, valid_count, duplicate_count, deliveries>>
       \/ /\ ~ ConstructionRaises(Normalized(idx))
          /\ ~ IsValidOffer(BuiltOffer(idx))
          /\ UNCHANGED <<offers, processed_keys, valid_count, duplicate_count,
                         deliveries, faults>>
       \/ /\ ~ ConstructionRaises(Normalized(idx))
          /\ IsValidOffer(BuiltOffer(idx))
          /\ ~ IsNewKey(BuiltOffer(idx).product_key, processed_keys)
          /\ duplicate_count' = duplicate_count + 1
          /\ UNCHANGED <<offers, processed_keys, valid_count, deliveries, faults>>
       \/ /\ ~ ConstructionRaises(Normalized(idx))
          /\ IsValidOffer(BuiltOffer(idx))
          /\ IsNewKey(BuiltOffer(idx).product_key, processed_keys)
          /\ processed_keys' = processed_keys \cup {BuiltOffer(idx).product_key}
          /\ offers' = Append(offers, BuiltOffer(idx))
          /\ valid_count' = valid_count + 1
          /\ deliveries' = Append(deliveries, Delivery(BuiltOffer(idx), valid_count + 1))
          /\ \E ok \in BOOLEAN : faults' = IF ok THEN faults ELSE faults \cup {"delivery"}
          /\ UNCHANGED duplicate_count
    /\ idx' = idx + 1
    /\ pc' = IF ConstructionRaises(Normalized(idx)) THEN RecordFailure(LoopNext)
             ELSE LoopNext
    /\ term' = IF idx = Len(all_products) THEN DoneResult(offers', duplicate_count')
               ELSE term
    /\ UNCHANGED <<ingestVars, storeVars, queue, extracted_data, all_products, alias,
                   origin, att, produced>>
    /\ UNCHANGED <<norm, poll, batch, sheet>>

\* The single-record path (`else:` of `if all_products:`): one offer built
\* from extracted_data alone.  An exception in the block (construction,
\* webhook) is caught by the block's handler, which persists a
\* "partial_success" payload without a products list.
SingleOffer == OfferDict(SafeData(extracted_data), 0)

SingleRecord ==
    /\ pc = "single"
    /\ \/ /\ ConstructionRaises(SafeData(extracted_data))
          /\ faults' = faults \cup Fatal("record", offers)
          /\ term' = PartialResult(duplicate_count)
          /\ pc' = "result_partial"
          /\ UNCHANGED <<offers, deliveries>>
       \/ /\ ~ ConstructionRaises(SafeData(extracted_data))
          /\ ~ IsValidOffer(SingleOffer)
          /\ term' = DoneResult(offers, duplicate_count)
          /\ pc' = "result_main"
          /\ UNCHANGED <<offers, deliveries, faults>>
       \/ /\ ~ ConstructionRaises(SafeData(extracted_data))
          /\ IsValidOffer(SingleOffer)
          /\ offers' = Append(offers, SingleOffer)
          /\ deliveries' = Append(deliveries,
                                  [delivery_id |-> SingleDeliveryId, product |-> SingleOffer])
          /\ \E ok \in BOOLEAN :
                /\ faults' = IF ok THEN faults ELSE faults \cup Fatal("delivery", offers')
                /\ term' = IF ok THEN DoneResult(offers', duplicate_count)
                           ELSE PartialResult(duplicate_count)
                /\ pc' = IF ok THEN "result_main" ELSE "result_partial"
    /\ UNCHANGED <<ingestVars, storeVars, queue, extracted_data, all_products, alias,
                   origin, att, idx, processed_keys, valid_count, duplicate_count,
                   produced>>
    /\ UNCHANGED <<norm, poll, batch, sheet>>

\* ---------------------------------------------------------- the job store
\* A store call either takes effect or raises (redis_client passes the
\* client's exceptions on).  An exception raised outside the outermost
\* handler enters it; one raised inside it leaves process_offer.

\* Normal ending: redis_manager.set_job_result(job_id, result_data)
StoreResult ==
    /\ pc = "result_main"
    /\ \E ok \in BOOLEAN :
          /\ result' = IF ok THEN term ELSE result
          /\ pc' = IF ok THEN "status_main" ELSE "result_handler"
          /\ faults' = IF ok THEN faults ELSE faults \cup Fatal("store", offers)
    /\ UNCHANGED <<ingestVars, status, queue, localVars, deliveries, term, produced>>
    /\ UNCHANGED <<norm, poll, batch, sheet>>

\* The status the normal ending writes.
FinalStatusBug == "processing"
FinalStatus == "done"

\* Normal ending: redis_manager.set_job_status(job_id, "done")
StoreStatus ==
    /\ pc = "status_main"
    /\ \E ok \in BOOLEAN :
          /\ status' = IF ok THEN FinalStatus ELSE status
          /\ pc' = IF ok THEN "returned" ELSE "result_handler"
          /\ faults' = IF ok THEN faults ELSE faults \cup Fatal("store", offers)
    /\ UNCHANGED <<ingestVars, result, queue, localVars, deliveries, term, produced>>
    /\ UNCHANGED <<norm, poll, batch, sheet>>

\* Handler of the single-record path: set_job_result(job_id, result_data)
StorePartialResult ==
    /\ pc = "result_partial"
    /\ \E ok \in BOOLEAN :
          /\ result' = IF ok THEN term ELSE result
          /\ pc' = IF ok THEN "status_partial" ELSE "result_handler"
          /\ faults' = IF ok THEN faults ELSE faults \cup Fatal("store", offers)
    /\ UNCHANGED <<ingestVars, status, queue, localVars, deliveries, term, produced>>
    /\ UNCHANGED <<norm, poll, batch, sheet>>

\* Handler of the single-record path: set_job_status(job_id, "done"); return
StorePartialStatus ==
    /\ pc = "status_partial"
    /\ \E ok \in BOOLEAN :
          /\ status' = IF ok THEN "done" ELSE status
          /\ pc' = IF ok THEN "returned" ELSE "result_handler"
          /\ faults' = IF ok THEN faults ELSE faults \cup Fatal("store", offers)
    /\ UNCHANGED <<ingestVars, result, queue, localVars, deliveries, term, produced>>
    /\ UNCHANGED <<norm, poll, batch, sheet>>

\* Outermost handler: set_job_result(job_id, error_result)
StoreErrorResult ==
    /\ pc = "result_handler"
    /\ term' = ErrorResult
    /\ \E ok \in BOOLEAN :
          /\ result' = IF ok THEN ErrorResult ELSE result
          /\ pc' = IF ok THEN "status_handler" ELSE "raised"
    /\ UNCHANGED <<ingestVars, status, queue, localVars, deliveries, faults, produced>>
    /\ UNCHANGED <<norm, poll, batch, sheet>>

\* Outermost handler: set_job_status(job_id, "failed")
StoreErrorStatus ==
    /\ pc = "status_handler"
    /\ \E ok \in BOOLEAN :
          /\ status' = IF ok THEN "failed" ELSE status
          /\ pc' = IF ok THEN "returned" ELSE "raised"
    /\ UNCHANGED <<ingestVars, result, queue, localVars, deliveries, term, faults, produced>>
    /\ UNCHANGED <<norm, poll, batch, sheet>>

Next ==
    \/ IngestSetStatus
    \/ IngestEnqueue
    \/ RunBegin
    \/ ExtractText
    \/ ProcessAttachment
    \/ ProcessCandidate
    \/ SingleRecord
    \/ StoreResult
    \/ StoreStatus
    \/ StorePartialResult
    \/ StorePartialStatus
    \/ StoreErrorResult
    \/ StoreErrorStatus

Spec == Init /\ [][Next]_vars

\* The same, with the task of a job executed again after an execution ended.
NextRedelivery == Next \/ Redeliver
SpecRedelivery == Init /\ [][NextRedelivery]_vars

\* The steps of process_offer after its entry.  Every call it makes returns
\* or raises, so an execution that has begun takes its next step.
RunStep ==
    \/ ExtractText
    \/ ProcessAttachment
    \/ ProcessCandidate
    \/ SingleRecord
    \/ StoreResult
    \/ StoreStatus
    \/ StorePartialResult
    \/ StorePartialStatus
    \/ StoreErrorResult
    \/ StoreErrorStatus


\* ------------------------------------------- normalization of one candidate
\* clean_product_data on the candidate the language model returned
\* (extract_offer and extract_from_file call it on every product).
CleanCandidate ==
    /\ norm.stage = "raw"
    /\ norm' = [norm EXCEPT !.stage = "cleaned", !.cur = CleanProductData(norm.raw)]
    /\ UNCHANGED <<jobVars, poll, batch, sheet>>

\* The currency step on the cleaned product: prices are copied for EUR and
\* for no currency; otherwise the rate is looked up and the prices converted.
ConvertCandidate ==
    /\ norm.stage = "cleaned"
    /\ \/ /\ IsEurOrAbsent(norm.cur.currency)
          /\ norm' = [norm EXCEPT !.stage = "converted", !.cur = ToEUR(norm.cur, 100)]
       \/ /\ ~IsEurOrAbsent(norm.cur.currency)
          /\ \E rate \in Rates :
                norm' = [norm EXCEPT !.stage = "converted",
                                     !.cur = ToEUR(norm.cur, rate),
                                     !.rate = rate,
                                     !.lookups = Append(@, norm.cur.currency.str)]
    /\ UNCHANGED <<jobVars, poll, batch, sheet>>

\* process_offer builds the Offer of the product and dumps it.
BuildCandidateOffer ==
    /\ norm.stage = "converted"
    /\ norm' = [norm EXCEPT !.stage = "persisted", !.offer = PersistedOffer(norm.cur)]
    /\ UNCHANGED <<jobVars, poll, batch, sheet>>

InitNormalize ==
    /\ InitJob
    /\ produced = 0
    /\ norm \in {[NoCandidate EXCEPT !.stage = "raw", !.raw = r, !.cur = r] :
                    r \in RawCandidates}
    /\ poll = NoPoll
    /\ batch = NoBatch
    /\ sheet = NoSheet

NextNormalize == CleanCandidate \/ ConvertCandidate \/ BuildCandidateOffer

SpecNormalize == InitNormalize /\ [][NextNormalize]_vars

\* ---------------------------------------------- the price conversion loop
\* Largest number of products of one extraction.
MaxBatch == 2

\* The cleaned products of the loop: a currency, a unit price or none.
BatchProducts ==
    {CleanProductData([BaseCandidate EXCEPT !.currency = c, !.price_per_unit = pu]) :
        c \in {Str("EUR"), Str("USD"), Str("GBP")}, pu \in {Absent, Num(105)}}

\* One iteration of `for product in all_products` at the end of
\* extract_offer: prices are copied for EUR and for no currency; otherwise
\* get_exchange_rate_to_eur is called for this product and its prices are
\* converted with the rate it returns.
ConvertNextProduct ==
    /\ batch.i <= Len(batch.products)
    /\ LET c == batch.products[batch.i]
       IN \/ /\ IsEurOrAbsent(c.currency)
             /\ batch' = [batch EXCEPT !.products[batch.i] = ToEUR(c, 100),
                                       !.i = @ + 1]
          \/ /\ ~ IsEurOrAbsent(c.currency)
             /\ \E rate \in Rates :
                   batch' = [batch EXCEPT
                                !.products[batch.i] = ToEUR(c, rate),
                                !.i = @ + 1,
                                !.lookups = Append(@, [currency |-> c.currency.str,
                                                       rate |-> rate])]
    /\ UNCHANGED <<jobVars, norm, poll, sheet>>

InitBatch ==
    /\ InitJob
    /\ produced = 0
    /\ norm = NoCandidate
    /\ poll = NoPoll
    /\ batch \in {[NoBatch EXCEPT !.products = ps] :
                    ps \in SeqsUpTo(BatchProducts, MaxBatch) \ {<<>>}}
    /\ sheet = NoSheet

NextBatch == ConvertNextProduct

SpecBatch == InitBatch /\ [][NextBatch]_vars

\* ------------------------------------------------ spreadsheet batches
\* Largest number of data rows of a spreadsheet.
MaxRows == 13
\* batch_size = 6
BatchSize == 6

\* What one batch adds to all_extracted_products, for a batch of n rows.
\* "answer": the language model's answer parses (at once, or after the
\* regex salvage) to a list of k products, under a "products" key or
\* bare; a short list is filled up with "Row N" fillers, a long one is kept.
\* "fillers": the answer parses to something else, or the call or the
\* cleaning raises: n "Row N" fillers.  "nothing": the answer is no JSON
\* and the salvage finds no products list.
Contribution(kind, k, n) ==
    IF kind = "answer"
    THEN [i \in 1..(IF k < n THEN n ELSE k) |-> IF i <= k THEN "product" ELSE "row"]
    ELSE IF kind = "fillers" THEN [i \in 1..n |-> "row"]
    ELSE <<>>

\* After the loop: the "Missing Row N" fillers to add.
PadCountNone(total, have) == 0
PadCount(total, have) == IF have < total THEN total - have ELSE 0

\* One iteration of `for batch_start in range(0, total_rows, batch_size)`.
SheetBatch ==
    /\ sheet.pc = "batches"
    /\ sheet.batch_start < sheet.total_rows
    /\ LET batch_end == IF sheet.batch_start + BatchSize < sheet.total_rows
                        THEN sheet.batch_start + BatchSize ELSE sheet.total_rows
           n == batch_end - sheet.batch_start
       IN \E kind \in {"answer", "fillers", "nothing"}, k \in 0..(n + 1) :
             /\ kind # "answer" => k = 0
             /\ sheet' = [sheet EXCEPT
                   !.out = @ \o Contribution(kind, k, n),
                   !.covered = [r \in 1..sheet.total_rows |->
                                   IF r > sheet.batch_start /\ r <= batch_end
                                   THEN @[r] + 1 ELSE @[r]],
                   !.largest = IF n > @ THEN n ELSE @,
                   !.longer = @ \/ (kind = "answer" /\ k > n),
                   !.batch_start = @ + BatchSize,
                   !.pc = IF sheet.batch_start + BatchSize < sheet.total_rows
                          THEN "batches" ELSE "pad"]
    /\ UNCHANGED <<jobVars, norm, poll, batch>>

\* After the loop: fill up to total_rows with "Missing Row N" fillers and
\* return the products.
SheetPad ==
    /\ sheet.pc = "pad"
    /\ sheet' = [sheet EXCEPT
          !.out = @ \o [i \in 1..PadCount(sheet.total_rows, Len(sheet.out)) |-> "missing"],
          !.pc = "returned"]
    /\ UNCHANGED <<jobVars, norm, poll, batch>>

\* A non-empty spreadsheet has been read into the data frame.
InitSheet ==
    /\ InitJob
    /\ produced = 0
    /\ norm = NoCandidate
    /\ poll = NoPoll
    /\ batch = NoBatch
    /\ sheet \in {[NoSheet EXCEPT !.pc = "batches", !.total_rows = n,
                                  !.covered = [r \in 1..n |-> 0]] : n \in 1..MaxRows}

NextSheet == SheetBatch \/ SheetPad

SpecSheet == InitSheet /\ [][NextSheet]_vars

\* ------------------------------------------------ spreadsheet fillers
\* The record extract_from_file puts in for a spreadsheet row the language
\* model did not return: clean_product_data({}) with product_name "Row N",
\* or "Missing Row N" when the total is still short.  Every schema key is
\* present; the prices and alcohol_percent are None, product_key is
\* "Not Found".
FillerNames == {"Row 1", "Missing Row 2"}
Fillers == {Rec(n, "Not Found", <<NoneN, NoneN>>, None) : n \in FillerNames}

\* process_offer at the head of its loop over all_products, after an
\* attachment returned a products list with fillers in it and the other
\* sources left extracted_data as it is here.
InitFiller ==
    /\ payload = [text_body |-> TRUE, attachments |-> 1]
    /\ ingest_pc = "returned"
    /\ status = "processing"
    /\ result = NoResult
    /\ queue = 0
    /\ pc = "loop"
    /\ extracted_data \in Records \cup {EmptyDict}
    /\ all_products \in SeqsUpTo(Fillers \cup {BaseRecord}, MaxCandidates) \ {<<>>}
    /\ alias = 0
    /\ origin = Origins(1, Len(all_products))
    /\ att = 2
    /\ idx = 1
    /\ offers = <<>>
    /\ processed_keys = {}
    /\ valid_count = 0
    /\ duplicate_count = 0
    /\ deliveries = <<>>
    /\ term = NoResult
    /\ faults = {}
    /\ produced = Len(all_products)
    /\ norm = NoCandidate
    /\ poll = NoPoll
    /\ batch = NoBatch
    /\ sheet = NoSheet

NextFiller ==
    \/ ProcessCandidate
    \/ StoreResult
    \/ StoreStatus
    \/ StoreErrorResult
    \/ StoreErrorStatus

SpecFiller == InitFiller /\ [][NextFiller]_vars

\* ------------------------------------------------- polling, key expiry
\* The submission has returned the job id and process_offer has not ended.
InWindow == ingest_pc = "returned" /\ pc \notin {"returned", "raised"}

\* get_job_status: the stored string, or None when the key is not there.
\* (GetJobStatusDone: a status read that says "done" whatever is stored.)
GetJobStatusDone(s) == "done"
GetJobStatus(s) == IF s = "absent" THEN "null" ELSE s

\* GET /result/{job_id}, first step: job_exists; 404 when the status key is
\* not there.
PollExists ==
    /\ poll.pc \in {"idle", "answered"}
    /\ poll' = IF status = "absent"
               THEN [poll EXCEPT !.pc = "answered", !.in_window = InWindow,
                                 !.stored = FALSE, !.code = 404, !.status = "",
                                 !.kind = "not_found"]
               ELSE [poll EXCEPT !.pc = "status", !.in_window = InWindow,
                                 !.stored = TRUE, !.code = 0, !.status = "",
                                 !.kind = ""]
    /\ UNCHANGED <<jobVars, norm, batch, sheet>>

\* Second step: get_job_status; any status but "done" is returned as it is.
PollStatus ==
    /\ poll.pc = "status"
    /\ poll' = IF GetJobStatus(status) # "done"
               THEN [poll EXCEPT !.pc = "answered", !.in_window = @ /\ InWindow,
                                 !.code = 200, !.status = GetJobStatus(status),
                                 !.kind = "status"]
               ELSE [poll EXCEPT !.pc = "result", !.in_window = @ /\ InWindow]
    /\ UNCHANGED <<jobVars, norm, batch, sheet>>

\* Third step: get_job_result; "processing" when there is no result, else
\* "done" with the products or with the whole payload.
PollResult ==
    /\ poll.pc = "result"
    /\ poll' = [poll EXCEPT !.pc = "answered", !.in_window = @ /\ InWindow,
                            !.code = 200,
                            !.status = IF result = NoResult THEN "processing" ELSE "done",
                            !.kind = IF result = NoResult THEN "pending"
                                     ELSE IF result.has_products THEN "products"
                                     ELSE "data"]
    /\ UNCHANGED <<jobVars, norm, batch, sheet>>

\* The status key was written with setex and a TTL of 3600 s: it disappears
\* when the TTL has passed.  An execution is stopped by task_time_limit
\* after the same 3600 s and writes the key when it begins, so the key does
\* not expire while process_offer runs; it can while the task waits in the
\* queue and after the execution.
ExpireStatus ==
    /\ pc \in {"idle", "returned", "raised"}
    /\ status # "absent"
    /\ status' = "absent"
    /\ poll' = [poll EXCEPT !.key_expired = TRUE]
    /\ UNCHANGED <<ingestVars, result, queue, pc, localVars, deliveries, term, faults,
                   produced, norm, batch, sheet>>

\* The result key has its own TTL of 3600 s.
ExpireResult ==
    /\ pc \in {"returned", "raised"}
    /\ result # NoResult
    /\ result' = NoResult
    /\ poll' = [poll EXCEPT !.result_expired = TRUE]
    /\ UNCHANGED <<ingestVars, status, queue, pc, localVars, deliveries, term, faults,
                   produced, norm, batch, sheet>>

\* One submission, one execution, polls at any moment, keys that expire.  The
\* extraction returns at most one record here: what the store holds and when
\* does not depend on how many there are.
InitPoll ==
    /\ InitJob
    /\ produced = MaxCandidates - 1
    /\ norm = NoCandidate
    /\ poll = NoPoll
    /\ batch = NoBatch
    /\ sheet = NoSheet

NextPoll == Next \/ PollExists \/ PollStatus \/ PollResult \/ ExpireStatus \/ ExpireResult

SpecPoll == InitPoll /\ [][NextPoll]_vars

\* One submission and one execution that takes its steps.  The extraction
\* returns at most two records here: which step an execution takes next
\* does not depend on how many records there were before.
InitFair ==
    /\ InitJob
    /\ produced = MaxCandidates - 2
    /\ norm = NoCandidate
    /\ poll = NoPoll
    /\ batch = NoBatch
    /\ sheet = NoSheet
SpecFair == InitFair /\ [][Next]_vars /\ WF_vars(RunStep)

\* ------------------------------------------------------------------ claims
Terminal == {"done", "failed"}

\* C1: whenever an execution of process_offer is past its entry write the
\* stored status is "processing" until its own terminal write, and whenever it
\* has returned the stored status is done or failed and the stored result is the
\* payload this execution wrote (an error payload under failed, a done or
\* partial_success payload under done); it never returns with status processing.
C1_RunEndsTerminal ==
    /\ (pc \in {"text", "attachments", "loop", "single", "result_main", "result_partial"}
          => status = "processing")
    /\ (pc = "returned" =>
          /\ status \in Terminal
          /\ result = term
          /\ result # NoResult
          /\ (status = "failed") = (result.status = "failed"))

\* C1 witness: an execution has returned with status done and a stored
\* result holding an accepted offer.
C1_Witness ==
    /\ pc = "returned"
    /\ status = "done"
    /\ result = term
    /\ Len(result.products) > 0

\* C2 (as claimed): once the stored status is done or failed, no step sets it
\* back to processing.
C2_NeverBackToProcessing ==
    [][(status \in Terminal) => ~(status' = "processing")]_vars

\* C3 (as claimed): when an execution has returned and an exception reached a
\* job-level handler after some offer had been accepted, the job is done, the
\* stored result carries the partial-success marker, and it holds every
\* accepted offer.
C3_PartialSuccessKeepsOffers ==
    (pc = "returned" /\ "fatal_late" \in faults) =>
        /\ status = "done"
        /\ result.status = "partial_success"
        /\ result.has_products
        /\ result.products = offers

\* C4 (as claimed): when an execution has returned and an exception reached a
\* job-level handler while no offer had been accepted, the job is failed and
\* the stored result is an error payload with a trace.
C4_EarlyErrorFails ==
    (pc = "returned" /\ "fatal_early" \in faults) =>
        /\ status = "failed"
        /\ result.status = "failed"
        /\ result.error_trace

\* ---- vocabulary of the claims about the gate
\* The execution is (or was) on the multi-record path.
MultiPath == all_products # <<>>
\* Candidates the loop has finished with.
Processed == IF MultiPath THEN 1..(idx - 1) ELSE {}
\* What the loop's body makes of candidate i: whether an Offer can be
\* constructed from it, and the offer.
Outcome(i) ==
    LET sd == Normalized(i)
    IN [constructs |-> ~ ConstructionRaises(sd), offer |-> OfferDict(sd, i - 1)]
\* The outcomes of the candidates the loop has finished with.
Outcomes == [i \in Processed |-> Outcome(i)]
\* The offer's product_name is present and no placeholder.
NamePresent(o) ==
    /\ o.product_name \notin {None, "", "Not Found", "Unknown", "Row"}
    /\ o.product_name \notin RowNames
\* At least one of the offer's two prices is present and not zero.
PricePresent(o) == o.price_per_unit > 0 \/ o.price_per_case > 0
\* Candidate i was accepted: its offer is in offers (uid carries the index).
Accepted(i) == \E k \in 1..Len(offers) : offers[k].uid = i - 1
\* Candidate i of the outcomes c yields an offer that passes validation.
Valid(c, i) == c[i].constructs /\ NamePresent(c[i].offer) /\ PricePresent(c[i].offer)
\* No valid candidate before candidate i has its product_key.
FirstWithKey(c, i) ==
    \A l \in 1..(i - 1) : Valid(c, l) => c[l].offer.product_key # c[i].offer.product_key
\* The candidates to accept: valid, and first with their product_key.
Survivors(c) == {i \in DOMAIN c : Valid(c, i) /\ FirstWithKey(c, i)}
\* The execution has returned after persisting the normal result payload.
ReturnedDone == pc = "returned" /\ status = "done" /\ result.has_products

\* C5: the product_key values of the offers in a stored result (and of the
\* offers accepted so far) are pairwise distinct.
C5_PersistedKeysDistinct ==
    /\ \A i, j \in 1..Len(result.products) :
          i # j => result.products[i].product_key # result.products[j].product_key
    /\ \A i, j \in 1..Len(offers) : i # j => offers[i].product_key # offers[j].product_key

\* C5 witness: a stored result from which dedup has dropped a candidate.
C5_Witness ==
    /\ ReturnedDone
    /\ result.duplicate_count >= 1
    /\ Len(result.products) >= 1

\* C6: among the valid candidates with one product_key exactly the first in
\* candidate order is accepted, duplicate_count is the number of the others,
\* and the stored result of the normal ending holds these offers and count.
C6_FirstOccurrenceWins ==
    LET c == Outcomes
        valid == {i \in DOMAIN c : Valid(c, i)}
    IN /\ \A i \in valid : Accepted(i) = FirstWithKey(c, i)
       /\ duplicate_count = Cardinality({i \in valid : ~ FirstWithKey(c, i)})
       /\ (ReturnedDone /\ MultiPath) =>
             /\ result.products = offers
             /\ result.duplicate_count = duplicate_count

\* C6 witness: two valid candidates with different names and the same key;
\* the stored result holds the first only, with duplicate_count 1.
C6_Witness ==
    /\ ReturnedDone
    /\ Len(all_products) = 2
    /\ Valid(Outcomes, 1)
    /\ Valid(Outcomes, 2)
    /\ BuiltOffer(1).product_name # BuiltOffer(2).product_name
    /\ BuiltOffer(1).product_key = BuiltOffer(2).product_key
    /\ result.products = <<BuiltOffer(1)>>
    /\ result.duplicate_count = 1

\* C7: of the offers the loop has constructed, one without a present name is
\* rejected, one with a name and no non-zero price is rejected, and one with a
\* name and a non-zero price is accepted unless an earlier accepted offer has
\* its product_key; the single-record path accepts its offer exactly when it
\* has a name and a non-zero price.
C7_ValidationGate ==
    /\ \A i \in Processed :
          LET out == Outcome(i)
              o == out.offer
              earlier == \E k \in 1..Len(offers) :
                            offers[k].uid < i - 1 /\ offers[k].product_key = o.product_key
              accepted == Accepted(i)
          IN out.constructs =>
                /\ ~ NamePresent(o) => ~ accepted
                /\ (NamePresent(o) /\ ~ PricePresent(o)) => ~ accepted
                /\ (NamePresent(o) /\ PricePresent(o) /\ ~ earlier) => accepted
    /\ (~ MultiPath /\ pc \in {"result_main", "status_main", "returned"}
          /\ ~ ConstructionRaises(SafeData(extracted_data))
          /\ "record" \notin faults) =>
          ((offers # <<>>) = (NamePresent(SingleOffer) /\ PricePresent(SingleOffer)))

\* C7 witness: the loop has accepted one offer and rejected another that has
\* a name and no price.
C7_Witness ==
    \E i, j \in Processed :
        /\ Accepted(i)
        /\ Outcome(j).constructs
        /\ NamePresent(Outcome(j).offer)
        /\ ~ PricePresent(Outcome(j).offer)
        /\ ~ Accepted(j)

\* C8: when an execution in which a source failed (its extraction raised or
\* gave no bytes) and no exception reached a job-level handler has returned,
\* the job is done, every candidate of the other sources has gone through the
\* gate, and the stored result holds exactly the offers accepted from them.
C8_SourceFailureIsolated ==
    (pc = "returned" /\ "source" \in faults
        /\ "fatal_early" \notin faults /\ "fatal_late" \notin faults) =>
        /\ status = "done"
        /\ result = DoneResult(offers, duplicate_count)
        /\ idx = Len(all_products) + 1
        /\ MultiPath => {offers[k].uid + 1 : k \in 1..Len(offers)} = Survivors(Outcomes)

\* C8 witness: one source failed, another gave a candidate, and the stored
\* result of the done job holds its offer.
C8_Witness ==
    /\ ReturnedDone
    /\ "source" \in faults
    /\ Len(result.products) >= 1
    /\ result.products = offers

\* <<source, position>> a precedes b: text (source 0) first, attachments in
\* submission order, then the order within the source.
Precedes(a, b) == a[1] < b[1] \/ (a[1] = b[1] /\ a[2] < b[2])

\* C9: the candidate list is in source order (text, then the attachments as
\* submitted, each in the order returned); the accepted offers are the
\* survivors of validation and dedup in candidate order, the delivery calls
\* carry them in that order, and so does the stored result of a done job.
C9_OrderPreserved ==
    /\ Len(origin) = Len(all_products)
    /\ \A i \in 1..(Len(origin) - 1) : Precedes(origin[i], origin[i + 1])
    /\ MultiPath =>
          LET c == Outcomes
          IN /\ \A k \in 1..(Len(offers) - 1) : offers[k].uid < offers[k + 1].uid
             /\ \A k \in 1..Len(offers) : offers[k] = c[offers[k].uid + 1].offer
             /\ {offers[k].uid + 1 : k \in 1..Len(offers)} = Survivors(c)
    /\ Len(deliveries) = Len(offers)
    /\ \A k \in 1..Len(offers) : deliveries[k].product = offers[k]
    /\ ReturnedDone => result.products = offers

\* C9 witness: a done job whose stored result holds two offers, the first
\* from attachment 1 and the second from attachment 2.
C9_Witness ==
    /\ ReturnedDone
    /\ origin = <<<<1, 1>>, <<2, 1>>>>
    /\ Len(result.products) = 2
    /\ result.products = <<BuiltOffer(1), BuiltOffer(2)>>

\* C10 (as claimed): every delivery id of an execution is {job_id}_{sequence}.
C10_DeliveryIdsSequenced ==
    \A k \in 1..Len(deliveries) : deliveries[k].delivery_id = DeliveryId(k)

\* C10 (amended): the delivery calls of an execution are, one for one and in
\* order, its accepted offers; a call is made in the step that accepts the
\* offer, before the execution persists a result; the ids are pairwise
\* distinct, {job_id}_{sequence} on the multi-record path and {job_id}_single
\* for the one call of the single-record path.
C10_OneDeliveryPerAcceptedOffer ==
    /\ [](/\ Len(deliveries) = Len(offers)
          /\ \A k \in 1..Len(offers) : deliveries[k].product = offers[k]
          /\ \A k, l \in 1..Len(deliveries) :
                k # l => deliveries[k].delivery_id # deliveries[l].delivery_id
          /\ \A k \in 1..Len(deliveries) :
                deliveries[k].delivery_id =
                    IF MultiPath THEN DeliveryId(k) ELSE SingleDeliveryId)
    /\ [][(deliveries' # deliveries /\ deliveries' # <<>>) =>
             /\ pc \in {"loop", "single"}
             /\ Len(deliveries') = Len(deliveries) + 1
             /\ offers' = Append(offers, deliveries'[Len(deliveries')].product)]_vars

\* C10 witness: an execution has made two delivery calls and returned.
C10_Witness ==
    /\ pc = "returned"
    /\ Len(deliveries) = 2
    /\ Len(all_products) = 2

\* ---- delivery failure
\* C11 (as claimed): when an execution has returned, a delivery call of it
\* raised and no store write failed, the job is done and the stored result
\* holds every accepted offer, on the multi-record path and on the
\* single-record path.
C11_DeliveryFailureKeepsOffer ==
    (pc = "returned" /\ "delivery" \in faults /\ "store" \notin faults) =>
        /\ status = "done"
        /\ result.has_products
        /\ result.products = offers

\* ---- vocabulary of the claims about normalization
\* The raw value stands for "no value": 0, "0", the empty string, a missing key.
ZeroLike == {Num(0), Str("0"), Str(""), Absent}
\* The raw string value stands for "no value": missing, null, blank, not found.
NoString == {Absent, Null, Str(""), Str("Not Found")}
\* The numeric fields of the model that are read from the raw candidate.
NumericFields == {"unit_volume_ml", "cases_per_pallet", "price_per_unit", "price_per_case"}
\* The price fields and the EUR field of each.
EurField == ("price_per_unit" :> "price_per_unit_eur") @@ ("price_per_case" :> "price_per_case_eur")
\* The Offer of the candidate has been built; the currency step has run.
Persisted == norm.stage = "persisted"
Converted == norm.stage \in {"converted", "persisted"}

\* C12 (as claimed): in the persisted Offer every numeric field whose raw
\* value was 0, "0", the empty string or a missing key holds the absent
\* marker (None), never the number 0.
C12_ZeroLikeIsAbsent ==
    Persisted =>
        \A f \in NumericFields : norm.raw[f] \in ZeroLike => norm.offer[f] = Null

\* C13 (as claimed): when the raw candidate has no refillable_status (missing,
\* null, blank, not found), the persisted Offer's refillable_status is absent
\* or blank, never a legal value such as NRF.
C13_RefillableStaysAbsent ==
    (Persisted /\ norm.raw.refillable_status \in NoString) =>
        norm.offer.refillable_status \in {Null, Str("")}

\* C14 (as claimed): a candidate with the alcohol percentage 17 (as a number
\* or as text) is persisted with alcohol_percent "17%", a string, not a number.
C14_AlcoholIsPercentString ==
    (Persisted /\ norm.raw.alcohol_percent \in {Num(1700), Str("17"), Str("17%")}) =>
        norm.offer.alcohol_percent = Str("17%")

\* C15 (as claimed): when the candidate has a product_name and no product_key
\* (missing, null, blank, not found), the cleaned product's and the Offer's
\* product_key is the key derived from the name, so different names get
\* different keys.
C15_KeyDerivedFromName ==
    (norm.raw.product_key \in NoString /\ norm.raw.product_name.tag = "str") =>
        /\ Converted => norm.cur.product_key = Str(DerivedKey(norm.raw.product_name.str))
        /\ Persisted => norm.offer.product_key = Str(DerivedKey(norm.raw.product_name.str))

\* C16: for a candidate whose currency is EUR or absent, after the currency
\* step each EUR price equals its source price (None when the source price
\* is absent), whatever EUR values the raw candidate carried, no rate lookup
\* was made, and the persisted EUR prices equal the persisted source prices.
C16_EurIsIdentity ==
    (Converted /\ norm.raw.currency \in NoString \cup {Str("EUR")}) =>
        /\ norm.lookups = <<>>
        /\ \A f \in DOMAIN EurField :
              /\ norm.cur[EurField[f]] = norm.cur[f]
              /\ norm.raw[f] \in ZeroLike => norm.cur[EurField[f]] = Null
              /\ Persisted => norm.offer[EurField[f]] = norm.offer[f]

\* An EUR candidate with a price of 1.05 and a raw EUR price of 9.00 has been
\* through the currency step: its EUR price is 1.05.
C16_Witness ==
    /\ norm.stage = "converted"
    /\ norm.raw.currency = Str("EUR")
    /\ norm.raw.price_per_unit = Num(105)
    /\ norm.raw.price_per_unit_eur = Num(900)
    /\ norm.raw.price_per_case = Absent
    /\ norm.cur.price_per_unit_eur = Num(105)
    /\ norm.cur.price_per_case_eur = Null

\* C17 (as claimed): for a candidate in USD and the rate r of its lookup,
\* after the currency step each EUR price is the source price times r rounded
\* to 2 decimals when the source price is present, and None when it is
\* absent, also when the raw candidate carried a value for the EUR field.
C17_NonEurConverted ==
    (Converted /\ norm.raw.currency = Str("USD")) =>
        \A f \in DOMAIN EurField :
            norm.cur[EurField[f]] =
                IF norm.raw[f] \in ZeroLike THEN Null
                ELSE Num(RoundDiv(norm.raw[f].num * norm.rate, 100))

\* C18 (as claimed): a candidate whose currency is spelled "EURO" or with the
\* euro sign has currency "EUR" after normalization, its EUR prices equal its
\* source prices and no rate lookup was made.
C18_EuroSpellingsAreEur ==
    (Converted /\ norm.raw.currency \in {Str("EURO"), Str(EuroSign)}) =>
        /\ norm.cur.currency = Str("EUR")
        /\ norm.lookups = <<>>
        /\ \A f \in DOMAIN EurField : norm.cur[EurField[f]] = norm.cur[f]

\* ---- polling
\* A GET /result/{job_id} request has been answered.
Answered == poll.pc = "answered"

\* C19 (as claimed): a poll is answered not-found exactly when no status was
\* stored at the existence check; when one was stored, the response carries
\* a status out of processing, done, failed, never null, also when the key
\* expires between the existence check and the status read.
C19_KnownJobHasStatus ==
    Answered =>
        /\ poll.code = 404 <=> ~ poll.stored
        /\ poll.stored => poll.status \in {"processing", "done", "failed"}

\* C20 (as claimed): every poll made between the return of the submission
\* and the end of the execution is answered with status processing, never
\* not-found.
C20_PollInWindowIsProcessing ==
    (Answered /\ poll.in_window) => poll.code = 200 /\ poll.status = "processing"

\* C20 (amended): a poll made between the return of the submission and the
\* end of the execution is answered with status processing as long as the
\* status key has not expired; when it has, the answer is not-found, a null
\* status or processing.  No such poll is answered done or failed.
C20_PollInWindowUnlessExpired ==
    (Answered /\ poll.in_window) =>
        /\ poll.code = 404 \/ poll.status \in {"processing", "null"}
        /\ ~ poll.key_expired => poll.code = 200 /\ poll.status = "processing"

\* A poll was answered processing after the execution had stored its result
\* and before it stored its final status.
C20_Witness ==
    /\ Answered
    /\ poll.in_window
    /\ ~ poll.key_expired
    /\ poll.status = "processing"
    /\ InWindow
    /\ result.status = "done"

\* C21 (as claimed): whenever a poll is answered with status done, the
\* response carries the job's products list, whichever way the execution
\* ended with status done.
C21_DoneCarriesProducts ==
    (Answered /\ poll.status = "done") => poll.kind = "products"

\* ---- termination
\* An execution of process_offer has begun and has not ended.
Begun == pc \notin {"idle", "returned", "raised"}

SourcesRead == pc \in {"loop", "single", "result_main", "result_partial", "returned"}

\* The candidates process_offer works on: the elements of all_products, or
\* the one record of the single-record path when extracted_data holds one.
NumCandidates ==
    IF all_products # <<>> THEN Len(all_products)
    ELSE IF extracted_data # EmptyDict THEN 1 ELSE 0

\* C23 (as claimed): when all sources are read, every record an extraction
\* returned, as an element of a products list or as a single implicit
\* record, is one candidate: there are as many candidates as records, also
\* when other sources returned products lists.
C23_SingleRecordIsOneCandidate ==
    SourcesRead => NumCandidates = produced

\* ---- record failure
\* C24: when an execution on the multi-record path has returned, the Offer
\* construction raised for some candidate and no store write failed, every
\* candidate was processed, the accepted candidates are exactly the valid
\* first occurrences among all candidates, in candidate order, they are the
\* persisted products, and the status is done.
C24_RecordFailureIsolated ==
    (pc = "returned" /\ MultiPath /\ "record" \in faults /\ "store" \notin faults) =>
        /\ status = "done"
        /\ idx = Len(all_products) + 1
        /\ result.has_products
        /\ result.products = offers
        /\ LET c == Outcomes
           IN \A i \in Processed : Accepted(i) <=> i \in Survivors(c)
        /\ \A k \in 1..(Len(offers) - 1) : offers[k].uid < offers[k + 1].uid

\* The construction raised for the first candidate and the second one was
\* accepted and persisted.
C24_Witness ==
    /\ pc = "returned"
    /\ Len(all_products) = 2
    /\ ~ Outcome(1).constructs
    /\ Accepted(2)
    /\ Len(result.products) = 1
    /\ status = "done"

\* ---- rate lookups
\* C25 (as claimed): in one conversion loop no currency is looked up twice,
\* so two products with the same currency and the same price get the same
\* EUR price.
C25_OneLookupPerCurrency ==
    /\ \A a, b \in 1..Len(batch.lookups) :
          a # b => batch.lookups[a].currency # batch.lookups[b].currency
    /\ \A a, b \in 1..(batch.i - 1) :
          (/\ batch.products[a].currency = batch.products[b].currency
           /\ batch.products[a].price_per_unit = batch.products[b].price_per_unit)
          => batch.products[a].price_per_unit_eur = batch.products[b].price_per_unit_eur

\* ---- writers of the store entry
\* The step is the submission handler's write: status processing, before the
\* task is enqueued and before any execution.
IngestWrite ==
    /\ ingest_pc = "start"
    /\ ingest_pc' = "enqueue"
    /\ queue = 0
    /\ pc = "idle"
    /\ status' = "processing"
    /\ result' = result
\* The step is a step of the job's execution of process_offer.
RunWrite == pc' # pc

\* C26: the status is processing from the submission handler's write until
\* the execution begins; every step that changes the stored status or result
\* is that one write of the submission handler or a step of the job's own
\* execution; and nothing changes them after the execution has ended.
C26_SingleWriter ==
    /\ []((ingest_pc # "start" /\ pc = "idle") => status = "processing")
    /\ [][/\ (status' # status \/ result' # result) => (IngestWrite \/ RunWrite)
          /\ pc \in {"returned", "raised"} /\ pc' = pc
                => status' = status /\ result' = result]_vars

\* The submission has returned and the execution has ended with status
\* failed and an error result.
C26_Witness ==
    /\ ingest_pc = "returned"
    /\ pc = "returned"
    /\ status = "failed"
    /\ result.status = "failed"
    /\ queue = 0

\* ---- result before status
\* C27 (as claimed): whenever the stored status is done a result is stored,
\* and no poll is answered processing / "Result not yet available", also
\* when the two keys expire independently.
C27_DoneHasResult ==
    /\ status = "done" => result # NoResult
    /\ Answered => poll.kind # "pending"

\* C27 (amended): as long as the result key has not expired, a result is
\* stored whenever the stored status is done, and a poll is answered
\* "Result not yet available" only after the result key has expired.
C27_DoneHasResultUnlessExpired ==
    /\ (status = "done" /\ ~ poll.result_expired) => result # NoResult
    /\ (Answered /\ poll.kind = "pending") => poll.result_expired

\* A poll of a job that ended done was answered done with its products.
C27_Witness ==
    /\ Answered
    /\ poll.kind = "products"
    /\ pc = "returned"
    /\ status = "done"
    /\ result.status = "done"
    /\ ~ poll.result_expired

\* ---- counters
\* C28: when an execution on the multi-record path has returned with status
\* done, total_products is the length of the persisted products list and
\* the number of delivery calls, duplicate_count is the number of valid
\* candidates whose key had been taken, total_products + duplicate_count is
\* at most the number of candidates, and every candidate is in exactly one
\* of: accepted, duplicate, rejected by validation, skipped on error.
C28_CountsAgree ==
    (ReturnedDone /\ MultiPath) =>
        LET c == Outcomes
            acc == {i \in Processed : Accepted(i)}
            dup == {i \in Processed : Valid(c, i) /\ ~ FirstWithKey(c, i)}
            rej == {i \in Processed : c[i].constructs /\ ~ Valid(c, i)}
            skip == {i \in Processed : ~ c[i].constructs}
        IN /\ Processed = 1..Len(all_products)
           /\ result.total_products = Len(result.products)
           /\ result.total_products = Len(deliveries)
           /\ result.total_products = Cardinality(acc)
           /\ result.duplicate_count = Cardinality(dup)
           /\ result.total_products + result.duplicate_count <= Len(all_products)
           /\ acc = Survivors(c)
           /\ Cardinality(acc) + Cardinality(dup) + Cardinality(rej) + Cardinality(skip)
                 = Len(all_products)

\* Of two candidates one was rejected by validation and one accepted.
C28_Witness ==
    /\ ReturnedDone
    /\ Len(all_products) = 2
    /\ result.total_products = 1
    /\ result.duplicate_count = 0
    /\ Len(deliveries) = 1
    /\ \E i \in 1..2 : Outcome(i).constructs /\ ~ IsValidOffer(Outcome(i).offer)

\* ---- spreadsheet fillers
\* C29: a filler record is never accepted, whatever extracted_data holds:
\* no offer, no delivery call and no persisted product comes from a
\* candidate that is a filler.
C29_FillerNeverAccepted ==
    \A i \in 1..Len(all_products) :
        all_products[i] \in Fillers =>
            /\ \A k \in 1..Len(offers) : offers[k].uid # i - 1
            /\ \A k \in 1..Len(deliveries) : deliveries[k].product.uid # i - 1
            /\ \A k \in 1..Len(result.products) : result.products[k].uid # i - 1

\* A "Missing Row" filler was passed over while extracted_data held a name
\* and a price, and the record after it was accepted and persisted.
C29_Witness ==
    /\ pc = "returned"
    /\ status = "done"
    /\ Len(all_products) = 2
    /\ all_products[1] = Rec("Missing Row 2", "Not Found", <<NoneN, NoneN>>, None)
    /\ extracted_data.price_per_unit = 5
    /\ extracted_data.product_name = "Rum"
    /\ Len(result.products) = 1
    /\ result.products[1].uid = 1

\* ---- spreadsheet batches
\* C30: every row of the spreadsheet is in exactly one batch, no batch has
\* more than 6 rows, and the returned products list has at least
\* total_rows entries whatever the answers to the batches were, and exactly
\* total_rows when no answer was longer than its batch.
C30_EveryRowOnce ==
    /\ sheet.largest <= BatchSize
    /\ sheet.pc \in {"pad", "returned"} =>
          \A r \in 1..sheet.total_rows : sheet.covered[r] = 1
    /\ sheet.pc = "returned" =>
          /\ Len(sheet.out) >= sheet.total_rows
          /\ ~ sheet.longer => Len(sheet.out) = sheet.total_rows

\* A spreadsheet of three batches, one of them lost and one answered short,
\* was returned with exactly one entry per row.
C30_Witness ==
    /\ sheet.pc = "returned"
    /\ sheet.total_rows = 13
    /\ Len(sheet.out) = 13
    /\ \E i \in 1..13 : sheet.out[i] = "missing"
    /\ \E i \in 1..13 : sheet.out[i] = "row"
    /\ \E i \in 1..13 : sheet.out[i] = "product"

============================================================================
